---- MODULE Spec2Model ----
(***************************************************************************)
(* Drought-risk Streamlit application (app.py): the chunked inference of   *)
(* predict_geotiff, the composite image of get_rgb_image, the statistics   *)
(* of plot_predictions and the model loading gate of main.                 *)
(*                                                                         *)
(* Numbers: raster samples are small integers or the float specials NaN    *)
(* and +Inf, kept as records [kind, v].  Probabilities and thresholds are  *)
(* fixed point, in thousandths.  The rescaled composite and the progress   *)
(* fraction are exact fractions, numerator and denominator.  The two       *)
(* percentages of the statistics tab are float64 values, computed with     *)
(* IEEE 754 round-to-nearest-even on binary digit sequences.               *)
(***************************************************************************)
EXTENDS Integers, Sequences, FiniteSets, TLC

\* Bounds of the model.
MaxDim == 3
MaxChunk == 3
MaxStatRows == 2
MaxStatCols == 3
MaxRuns == 4

\* app.py:150, the smallest accepted band count.
MinBands == 11

VARIABLES
    \* the uploaded raster (src) and the chunk_size argument
    height, width, band_count, chunk_size, flat, bad, fault,
    \* predict_geotiff's position and locals
    pc, y, x, rgb_image, probability_predictions, total_chunks, chunk_count,
    progress, windows, outcome, result,
    \* plot_predictions, statistics tab
    threshold, binary_predictions, high_risk_count, low_risk_count,
    total_pixels, high_risk_percentage, low_risk_percentage,
    \* main and the cached load_model
    artifact, cache, loaded, uploaded_file, uploader_shown, predict_calls,
    page_runs

rasterVars == <<height, width, band_count, chunk_size, flat, bad, fault>>
runVars == <<pc, y, x, rgb_image, probability_predictions, total_chunks,
             chunk_count, progress, windows, outcome, result>>
statVars == <<threshold, binary_predictions, high_risk_count, low_risk_count,
              total_pixels, high_risk_percentage, low_risk_percentage>>
mainVars == <<artifact, cache, loaded, uploaded_file, uploader_shown,
              predict_calls, page_runs>>
vars == <<rasterVars, runVars, statVars, mainVars>>

Min(a, b) == IF a < b THEN a ELSE b

\* Python's None and a present value, as one record shape.
None == [some |-> FALSE, val |-> <<>>]
Some(v) == [some |-> TRUE, val |-> v]

(***************************************************************************)
(* The raster.  One sample may be NaN or +Inf (bad); the others are finite:*)
(* all 1 when flat, else distinct per pixel and band.                      *)
(***************************************************************************)
Fin(n) == [kind |-> "fin", v |-> n]
NaN == [kind |-> "nan", v |-> 0]
Inf == [kind |-> "inf", v |-> 0]
NoBad == [band |-> 0, row |-> 0, col |-> 0, val |-> Fin(0)]

Pixels == (0 .. height - 1) \X (0 .. width - 1)

\* Sample of band b (1-based, as src.read(b)) at row r, column c.
Raster(b, r, c) ==
    IF bad.band = b /\ bad.row = r /\ bad.col = c THEN bad.val
    ELSE IF flat THEN Fin(1)
    ELSE Fin(r * width + c + b)

IsFinite(s) == s.kind = "fin"

\* a <= b on samples that are not NaN; +Inf is the largest.
Leq(a, b) == b.kind = "inf" \/ (a.kind = "fin" /\ b.kind = "fin" /\ a.v <= b.v)

(***************************************************************************)
(* get_rgb_image, app.py:107-128                                           *)
(***************************************************************************)
RgbBands == <<7, 4, 3>>

\* np.dstack((red, green, blue))
Stacked == [p \in Pixels |-> [ch \in 1 .. 3 |-> Raster(RgbBands[ch], p[1], p[2])]]

StackSamples == {Stacked[p][ch] : p \in Pixels, ch \in 1 .. 3}

\* np.nanmin / np.nanmax: NaN is skipped; all-NaN gives NaN.
nanmin(S) ==
    LET real == {s \in S : s.kind # "nan"}
    IN IF real = {} THEN NaN ELSE CHOOSE a \in real : \A b \in real : Leq(a, b)

nanmax(S) ==
    LET real == {s \in S : s.kind # "nan"}
    IN IF real = {} THEN NaN ELSE CHOOSE a \in real : \A b \in real : Leq(b, a)

\* A composite value: NaN, or the fraction num/den.
Frac(n, d) == [nan |-> FALSE, num |-> n, den |-> d]
FracNaN == [nan |-> TRUE, num |-> 0, den |-> 1]
Zero == Frac(0, 1)

\* rgb_max > rgb_min, false when either is NaN
RgbHasRange(lo, hi) == lo.kind # "nan" /\ hi.kind # "nan" /\ ~Leq(hi, lo)

\* (s - lo) / (hi - lo) in float arithmetic; lo is finite whenever hi > lo.
Rescale(s, lo, hi) ==
    IF s.kind = "nan" THEN FracNaN
    ELSE IF hi.kind = "inf" THEN (IF s.kind = "inf" THEN FracNaN ELSE Zero)
    ELSE Frac(s.v - lo.v, hi.v - lo.v)

\* Variant: each channel rescaled with its own minimum and maximum.
get_rgb_image_per_channel ==
    [p \in Pixels |-> [ch \in 1 .. 3 |->
        LET chan == {Stacked[q][ch] : q \in Pixels}
            lo == nanmin(chan)
            hi == nanmax(chan)
        IN IF RgbHasRange(lo, hi) THEN Rescale(Stacked[p][ch], lo, hi) ELSE Zero]]

get_rgb_image ==
    LET rgb_min == nanmin(StackSamples)
        rgb_max == nanmax(StackSamples)
    IN IF RgbHasRange(rgb_min, rgb_max)
       THEN [p \in Pixels |-> [ch \in 1 .. 3 |-> Rescale(Stacked[p][ch], rgb_min, rgb_max)]]
       ELSE [p \in Pixels |-> [ch \in 1 .. 3 |-> Zero]]

(***************************************************************************)
(* The fitted scaler and classifier of the pickle, applied row by row.     *)
(***************************************************************************)
\* Input width the scaler was fitted with: the feature bands of an
\* 11-band raster.
n_features_in == MinBands - 1

\* scaler.transform raises when a row has another width.
TransformRaises(features) ==
    \E i \in DOMAIN features : Len(features[i]) # n_features_in

scaler_transform(row) == [j \in DOMAIN row |-> row[j].v - j]

decision_function(z) == z[1] - (Len(z) \div 2)

\* 1 / (1 + exp(-d)), in thousandths.
LogisticTable == <<500, 731, 881, 953, 982, 993, 998, 999>>

Logistic(d) ==
    LET pos(e) == IF e + 1 <= Len(LogisticTable) THEN LogisticTable[e + 1] ELSE 1000
    IN IF d >= 0 THEN pos(d) ELSE 1000 - pos(-d)

(***************************************************************************)
(* predict_geotiff, app.py:130-202                                         *)
(***************************************************************************)
\* Variant: the band check off by one.
TooFewBands_off_by_one(n) == n < MinBands - 1

TooFewBands(n) == n < MinBands

\* Variant: floor instead of ceiling division.
TotalChunks_floor(h, w, c) == (h \div c) * (w \div c)

TotalChunks(h, w, c) == ((h + c - 1) \div c) * ((w + c - 1) \div c)

\* Variant: windows of full chunk size, not clipped at the raster's edge.
WindowAt_unclipped(xx, yy) ==
    [col_off |-> xx, row_off |-> yy, width |-> chunk_size, height |-> chunk_size]

\* Window(x, y, min(chunk_size, width - x), min(chunk_size, height - y))
WindowAt(xx, yy) ==
    [col_off |-> xx, row_off |-> yy,
     width |-> Min(chunk_size, width - xx),
     height |-> Min(chunk_size, height - yy)]

\* src.read(window=window): data[b][r][c], b from 0
ReadWindow(win) ==
    [b \in 0 .. band_count - 1 |->
        [r \in 0 .. win.height - 1 |->
            [c \in 0 .. win.width - 1 |->
                Raster(b + 1, win.row_off + r, win.col_off + c)]]]

\* data[1:, :, :]
DropFirstBand(data) == [b \in 0 .. band_count - 2 |-> data[b + 1]]

\* data.reshape(band_count - 1, -1).T: row i is pixel i of the window in
\* row-major order, column j its feature band j.
Features(data, win) ==
    LET flatten == [b \in DOMAIN data |->
                      [i \in 0 .. win.height * win.width - 1 |->
                          data[b][i \div win.width][i % win.width]]]
    IN [i \in 0 .. win.height * win.width - 1 |->
           [j \in 1 .. band_count - 1 |-> flatten[j - 1][i]]]

\* Variant: only NaN is looked for.
IsInvalid_nan_only(s) == s.kind = "nan"

\* np.isnan(features).any() or np.isinf(features).any()
IsInvalid(s) == s.kind = "nan" \/ s.kind = "inf"

HasInvalid(features) ==
    \E i \in DOMAIN features : \E j \in DOMAIN features[i] : IsInvalid(features[i][j])

Probabilities(features) ==
    [i \in DOMAIN features |->
        Logistic(decision_function(scaler_transform(features[i])))]

\* Variant: the block filled in column-major order.
Reshape2D_column_major(v, h, w) ==
    [r \in 0 .. h - 1 |-> [c \in 0 .. w - 1 |-> v[c * h + r]]]

\* probabilities.reshape((window.height, window.width))
Reshape2D(v, h, w) == [r \in 0 .. h - 1 |-> [c \in 0 .. w - 1 |-> v[r * w + c]]]

\* probability_predictions[y:y+window.height, x:x+window.width] = block
WriteBlock(surface, win, block) ==
    [p \in DOMAIN surface |->
        IF /\ win.row_off <= p[1] /\ p[1] < win.row_off + win.height
           /\ win.col_off <= p[2] /\ p[2] < win.col_off + win.width
        THEN block[p[1] - win.row_off][p[2] - win.col_off]
        ELSE surface[p]]

\* Variant: the surface buffer handed back on an early return.
NoResult_partial ==
    [rgb_image |-> None, probability_predictions |-> probability_predictions,
     meta |-> None]

\* return None, None, None
NoResult == [rgb_image |-> None, probability_predictions |-> None, meta |-> None]

Meta == [height |-> height, width |-> width, count |-> band_count]

\* The bar's first value, 0, as a fraction.
ProgressStart == <<0, 1>>

HasWindow == y < height /\ x < width

\* The origin the nested range() loops visit after (xx, yy).
NextOrigin(xx, yy) ==
    IF xx + chunk_size < width THEN <<xx + chunk_size, yy>>
    ELSE <<0, yy + chunk_size>>

(***************************************************************************)
(* float64.  A natural number is its binary digits, least significant      *)
(* first, without leading zeros; a float is m * 2^e with m such a number.  *)
(***************************************************************************)
\* Significant bits of a float64.
Precision == 53

FloatZero == [m |-> <<>>, e |-> 0]

\* m * 2^n
ShiftLeft(m, n) == IF m = <<>> THEN <<>> ELSE [i \in 1 .. n |-> 0] \o m

RECURSIVE AddCarry(_, _, _)
AddCarry(a, b, c) ==
    IF a = <<>> /\ b = <<>> THEN (IF c = 1 THEN <<1>> ELSE <<>>)
    ELSE LET da == IF a = <<>> THEN 0 ELSE a[1]
             db == IF b = <<>> THEN 0 ELSE b[1]
             ta == IF a = <<>> THEN <<>> ELSE Tail(a)
             tb == IF b = <<>> THEN <<>> ELSE Tail(b)
         IN <<(da + db + c) % 2>> \o AddCarry(ta, tb, (da + db + c) \div 2)

BigAdd(a, b) == AddCarry(a, b, 0)

\* m * n for a small n
RECURSIVE BigMulSmall(_, _)
BigMulSmall(m, n) ==
    IF n = 0 THEN <<>>
    ELSE LET rest == ShiftLeft(BigMulSmall(m, n \div 2), 1)
         IN IF n % 2 = 1 THEN BigAdd(m, rest) ELSE rest

\* Round to nearest, ties to even, keeping Precision bits.
RoundFloat(f) ==
    IF Len(f.m) <= Precision THEN f
    ELSE LET d == Len(f.m) - Precision
             kept == SubSeq(f.m, d + 1, Len(f.m))
             sticky == \E i \in 1 .. d - 1 : f.m[i] = 1
             up == f.m[d] = 1 /\ (sticky \/ kept[1] = 1)
         IN [m |-> IF up THEN BigAdd(kept, <<1>>) ELSE kept, e |-> f.e + d]

\* n more quotient bits of r / t by long division; q holds the bits so far.
RECURSIVE DivBits(_, _, _, _)
DivBits(r, t, n, q) ==
    IF n = 0 THEN [q |-> q, r |-> r]
    ELSE IF 2 * r >= t THEN DivBits(2 * r - t, t, n - 1, <<1>> \o q)
    ELSE DivBits(2 * r, t, n - 1, <<0>> \o q)

\* The least k with h * 2^k >= t, for 0 < h <= t.
RECURSIVE LeadShift(_, _)
LeadShift(h, t) == IF h >= t THEN 0 ELSE 1 + LeadShift(2 * h, t)

\* float64 h / t for integers 0 <= h <= t, t > 0: Precision bits, a guard
\* bit and a sticky bit for the remainder, then rounded.
FloatDiv(h, t) ==
    IF h = 0 THEN FloatZero
    ELSE LET k == LeadShift(h, t)
             hk == h * (2 ^ k)
             d == DivBits(hk - t, t, Precision, <<1>>)
             sticky == IF d.r > 0 THEN 1 ELSE 0
         IN RoundFloat([m |-> <<sticky>> \o d.q, e |-> 0 - (k + Precision + 1)])

\* float64 f * n for a small integer n
FloatMulInt(f, n) == RoundFloat([m |-> BigMulSmall(f.m, n), e |-> f.e])

StatIdle ==
    /\ threshold = 0 /\ binary_predictions = <<>> /\ high_risk_count = 0
    /\ low_risk_count = 0 /\ total_pixels = 0
    /\ high_risk_percentage = FloatZero /\ low_risk_percentage = FloatZero

MainIdle ==
    /\ artifact = "valid" /\ cache = "ok" /\ loaded = "ok"
    /\ uploaded_file = "file" /\ uploader_shown = TRUE
    /\ predict_calls = 1 /\ page_runs = 1

BadCells ==
    {NoBad} \cup
    {[band |-> b, row |-> p[1], col |-> p[2], val |-> s] :
        b \in {1, 3, band_count}, p \in Pixels, s \in {NaN, Inf}}

\* Band counts around the accepted minimum: one too few, exactly enough, one
\* more.
BandCounts == {MinBands - 1, MinBands, MinBands + 1}

\* A read that fails: in get_rgb_image, or the second window read.
Faults == {"none", "rgb", "read_second"}

RunStart ==
    /\ pc = "start" /\ y = 0 /\ x = 0
    /\ rgb_image = None /\ probability_predictions = None
    /\ total_chunks = 0 /\ chunk_count = 0
    /\ progress = <<>> /\ windows = <<>>
    /\ outcome = "running" /\ result = NoResult

\* main has loaded the pair and calls predict_geotiff on an upload.
Init ==
    /\ height \in 1 .. MaxDim /\ width \in 1 .. MaxDim
    /\ band_count \in BandCounts
    /\ chunk_size \in 1 .. MaxChunk
    /\ flat \in BOOLEAN
    /\ bad \in BadCells
    /\ fault \in Faults
    /\ RunStart /\ StatIdle /\ MainIdle

Abort(o) ==
    /\ pc' = "done" /\ outcome' = o /\ result' = NoResult

\* app.py:148-152
CheckBands ==
    /\ pc = "start"
    /\ IF TooFewBands(band_count)
       THEN Abort("band_count")
       ELSE /\ pc' = "composite"
            /\ UNCHANGED <<outcome, result>>
    /\ UNCHANGED <<y, x, rgb_image, probability_predictions, total_chunks,
                   chunk_count, progress, windows>>
    /\ UNCHANGED <<rasterVars, statVars, mainVars>>

\* app.py:155-165
Composite ==
    /\ pc = "composite"
    /\ IF fault = "rgb"
       THEN /\ Abort("rgb_error")
            /\ UNCHANGED <<rgb_image, probability_predictions, total_chunks,
                           progress>>
       ELSE /\ rgb_image' = Some(get_rgb_image)
            /\ probability_predictions' = Some([p \in Pixels |-> 0])
            \* st.progress(0)
            /\ progress' = <<ProgressStart>>
            /\ total_chunks' = TotalChunks(height, width, chunk_size)
            /\ pc' = "loop"
            /\ UNCHANGED <<outcome, result>>
    /\ UNCHANGED <<y, x, chunk_count, windows>>
    /\ UNCHANGED <<rasterVars, statVars, mainVars>>

\* One iteration of the nested loops, app.py:168-196
ProcessWindow ==
    /\ pc = "loop" /\ HasWindow
    /\ LET window == WindowAt(x, y)
           nth == Len(windows) + 1
           readFails == fault = "read_second" /\ nth = 2
           features == Features(DropFirstBand(ReadWindow(window)), window)
           block == Reshape2D(Probabilities(features), window.height, window.width)
       IN /\ windows' = Append(windows, window)
          /\ IF readFails
             THEN /\ Abort("exception")
                  /\ UNCHANGED <<y, x, probability_predictions, chunk_count, progress>>
             ELSE IF HasInvalid(features)
             THEN /\ Abort("invalid_input")
                  /\ UNCHANGED <<y, x, probability_predictions, chunk_count, progress>>
             ELSE IF TransformRaises(features)
             THEN /\ Abort("exception")
                  /\ UNCHANGED <<y, x, probability_predictions, chunk_count, progress>>
             ELSE /\ probability_predictions' =
                        Some(WriteBlock(probability_predictions.val, window, block))
                  /\ chunk_count' = chunk_count + 1
                  /\ progress' = Append(progress, <<chunk_count + 1, total_chunks>>)
                  /\ x' = NextOrigin(x, y)[1]
                  /\ y' = NextOrigin(x, y)[2]
                  /\ UNCHANGED <<pc, outcome, result>>
    /\ UNCHANGED <<rgb_image, total_chunks>>
    /\ UNCHANGED <<rasterVars, statVars, mainVars>>

\* app.py:198-199
Return ==
    /\ pc = "loop" /\ ~HasWindow
    /\ pc' = "done" /\ outcome' = "success"
    /\ result' = [rgb_image |-> rgb_image,
                  probability_predictions |-> probability_predictions,
                  meta |-> Some(Meta)]
    /\ UNCHANGED <<y, x, rgb_image, probability_predictions, total_chunks,
                   chunk_count, progress, windows>>
    /\ UNCHANGED <<rasterVars, statVars, mainVars>>

Next == CheckBands \/ Composite \/ ProcessWindow \/ Return

Spec == Init /\ [][Next]_vars

FairSpec == Spec /\ WF_vars(Next)

(***************************************************************************)
(* The loop nest of app.py:168-170 alone, over every extent from 0: the    *)
(* windows it enumerates, nothing read or scored.                          *)
(***************************************************************************)
InitTiling ==
    /\ height \in 0 .. MaxDim /\ width \in 0 .. MaxDim
    /\ chunk_size \in 1 .. MaxChunk
    /\ band_count = MinBands /\ flat = FALSE /\ bad = NoBad /\ fault = "none"
    /\ pc = "loop" /\ y = 0 /\ x = 0
    /\ rgb_image = None /\ probability_predictions = None
    /\ total_chunks = TotalChunks(height, width, chunk_size)
    /\ chunk_count = 0 /\ progress = <<>> /\ windows = <<>>
    /\ outcome = "running" /\ result = NoResult
    /\ StatIdle /\ MainIdle

EnumerateWindow ==
    /\ pc = "loop" /\ HasWindow
    /\ windows' = Append(windows, WindowAt(x, y))
    /\ x' = NextOrigin(x, y)[1]
    /\ y' = NextOrigin(x, y)[2]
    /\ UNCHANGED <<pc, rgb_image, probability_predictions, total_chunks,
                   chunk_count, progress, outcome, result>>
    /\ UNCHANGED <<rasterVars, statVars, mainVars>>

LoopExhausted ==
    /\ pc = "loop" /\ ~HasWindow
    /\ pc' = "done"
    /\ UNCHANGED <<y, x, rgb_image, probability_predictions, total_chunks,
                   chunk_count, progress, windows, outcome, result>>
    /\ UNCHANGED <<rasterVars, statVars, mainVars>>

NextTiling == EnumerateWindow \/ LoopExhausted

SpecTiling == InitTiling /\ [][NextTiling]_vars

(***************************************************************************)
(* plot_predictions, statistics tab, app.py:250-256                        *)
(***************************************************************************)
ProbLevels == {300, 500}
Thresholds == {0, 500, 1000}

\* Variant: strict comparison.
IsHighRisk_strict(p, t) == p > t

\* probability_predictions >= threshold
IsHighRisk(p, t) == p >= t

\* np.where(probability_predictions >= threshold, 1, 0)
BinaryPredictions(surface, t) ==
    [p \in DOMAIN surface |-> IF IsHighRisk(surface[p], t) THEN 1 ELSE 0]

\* np.sum(binary_predictions == k)
CountEqual(binary, k) == Cardinality({p \in DOMAIN binary : binary[p] = k})

\* (count / total_pixels) * 100 in float64
Percentage(count, total) == FloatMulInt(FloatDiv(count, total), 100)

InitStats ==
    /\ height \in 1 .. MaxStatRows /\ width \in 1 .. MaxStatCols
    /\ band_count = MinBands /\ chunk_size = 1
    /\ flat = FALSE /\ bad = NoBad /\ fault = "none"
    /\ pc = "plot" /\ y = 0 /\ x = 0
    /\ rgb_image = None
    /\ probability_predictions \in {Some(f) : f \in [Pixels -> ProbLevels]}
    /\ total_chunks = 0 /\ chunk_count = 0
    /\ progress = <<>> /\ windows = <<>>
    /\ outcome = "success" /\ result = NoResult
    /\ threshold \in Thresholds
    /\ binary_predictions = <<>> /\ high_risk_count = 0
    /\ low_risk_count = 0 /\ total_pixels = 0
    /\ high_risk_percentage = FloatZero /\ low_risk_percentage = FloatZero
    /\ MainIdle

StatisticsTab ==
    /\ pc = "plot"
    /\ LET binary == BinaryPredictions(probability_predictions.val, threshold)
           high == CountEqual(binary, 1)
           low == CountEqual(binary, 0)
       IN /\ binary_predictions' = binary
          /\ high_risk_count' = high
          /\ low_risk_count' = low
          /\ total_pixels' = high + low
          /\ high_risk_percentage' = Percentage(high, high + low)
          /\ low_risk_percentage' = Percentage(low, high + low)
    /\ pc' = "shown"
    /\ UNCHANGED <<y, x, rgb_image, probability_predictions, total_chunks,
                   chunk_count, progress, windows, outcome, result, threshold>>
    /\ UNCHANGED <<rasterVars, mainVars>>

NextStats == StatisticsTab

SpecStats == InitStats /\ [][NextStats]_vars

(***************************************************************************)
(* main and load_model, app.py:87-105 and 318-339.  artifact is the model  *)
(* file on disk; cache is what st.cache_resource holds for load_model.     *)
(***************************************************************************)
Artifacts == {"missing", "corrupt", "valid"}

\* load_model's body: (None, None) for a missing or unreadable file
load_model(art) == IF art = "valid" THEN "ok" ELSE "none"

\* @st.cache_resource: the first return value is kept and handed out again
CachedLoadModel == IF cache = "empty" THEN load_model(artifact) ELSE cache

\* Variant: the result of load_model is not checked.
LoadFailed_unchecked(got) == FALSE

\* model is None or scaler is None
LoadFailed(got) == got = "none"

InitMain ==
    /\ height = 1 /\ width = 1 /\ band_count = MinBands /\ chunk_size = 1
    /\ flat = FALSE /\ bad = NoBad /\ fault = "none"
    /\ pc = "page" /\ y = 0 /\ x = 0
    /\ rgb_image = None /\ probability_predictions = None
    /\ total_chunks = 0 /\ chunk_count = 0
    /\ progress = <<>> /\ windows = <<>>
    /\ outcome = "running" /\ result = NoResult
    /\ StatIdle
    /\ artifact \in Artifacts /\ cache = "empty" /\ loaded = "unset"
    /\ uploaded_file = "None" /\ uploader_shown = FALSE
    /\ predict_calls = 0 /\ page_runs = 0

\* One script run of main; file is what the user has put in the uploader.
PageRun(file) ==
    /\ pc = "page" /\ page_runs < MaxRuns
    /\ LET got == CachedLoadModel
       IN /\ cache' = got
          /\ loaded' = got
          /\ IF LoadFailed(got)
             THEN /\ uploader_shown' = FALSE
                  /\ uploaded_file' = "None"
                  /\ predict_calls' = predict_calls
             ELSE /\ uploader_shown' = TRUE
                  /\ uploaded_file' = file
                  /\ predict_calls' = IF file # "None" THEN predict_calls + 1
                                      ELSE predict_calls
    /\ page_runs' = page_runs + 1
    /\ UNCHANGED artifact
    /\ UNCHANGED <<rasterVars, runVars, statVars>>

\* The model file is put in place, removed or damaged from outside.
ReplaceArtifact(art) ==
    /\ pc = "page" /\ art # artifact
    /\ artifact' = art
    /\ UNCHANGED <<cache, loaded, uploaded_file, uploader_shown, predict_calls,
                   page_runs>>
    /\ UNCHANGED <<rasterVars, runVars, statVars>>

\* The process is restarted (or the resource cache cleared).
Restart ==
    /\ pc = "page" /\ cache # "empty"
    /\ cache' = "empty"
    /\ UNCHANGED <<artifact, loaded, uploaded_file, uploader_shown,
                   predict_calls, page_runs>>
    /\ UNCHANGED <<rasterVars, runVars, statVars>>

NextMain ==
    \/ \E file \in {"None", "file"} : PageRun(file)
    \/ \E art \in Artifacts : ReplaceArtifact(art)
    \/ Restart

SpecMain == InitMain /\ [][NextMain]_vars

(***************************************************************************)
(* Properties                                                              *)
(***************************************************************************)
InWindow(p, w) ==
    /\ w.row_off <= p[1] /\ p[1] < w.row_off + w.height
    /\ w.col_off <= p[2] /\ p[2] < w.col_off + w.width

\* How many of the windows enumerated so far hold pixel p.
Holders(p) == Cardinality({i \in 1 .. Len(windows) : InWindow(p, windows[i])})

EnumerationComplete == pc \in {"loop", "done"} /\ ~HasWindow

\* Origins of the tiling, counted from the extents alone.
TilingOrigins ==
    {o \in (0 .. height - 1) \X (0 .. width - 1) :
        o[1] % chunk_size = 0 /\ o[2] % chunk_size = 0}

\* C1: the windows the loop nest enumerates tile the raster exactly, for
\* every height >= 0, width >= 0 and chunk size >= 1: each window is
\* non-empty and inside the raster, its size is the chunk size except where
\* the raster ends first (clipped, never padded), no pixel lies in two
\* windows, and once the loops are exhausted every pixel lies in exactly one.
C1_WindowsTileRaster ==
    /\ \A i \in 1 .. Len(windows) :
          LET w == windows[i]
          IN /\ w.width >= 1 /\ w.height >= 1
             /\ w.col_off >= 0 /\ w.row_off >= 0
             /\ w.col_off + w.width <= width
             /\ w.row_off + w.height <= height
             /\ w.width <= chunk_size /\ w.height <= chunk_size
             /\ w.width < chunk_size => w.col_off + w.width = width
             /\ w.height < chunk_size => w.row_off + w.height = height
    /\ \A p \in Pixels : Holders(p) <= 1
    /\ EnumerationComplete => \A p \in Pixels : Holders(p) = 1

\* A finished enumeration of several windows, one of them clipped.
C1_Witness ==
    /\ EnumerationComplete /\ Len(windows) >= 4
    /\ \E i \in 1 .. Len(windows) :
          windows[i].width < chunk_size /\ windows[i].height < chunk_size

FeatureBands == 2 .. band_count

AllFeaturesFinite ==
    \A b \in FeatureBands : \A p \in Pixels : IsFinite(Raster(b, p[1], p[2]))

SurfaceComplete(s) ==
    /\ s.some
    /\ DOMAIN s.val = Pixels
    /\ \A p \in Pixels : 0 <= s.val[p] /\ s.val[p] <= 1000

\* C2: for every raster with band count >= 11 (any such count) whose feature
\* values are all finite, and whose reads succeed, the run returns a
\* probability surface with exactly height x width entries, each in [0,1].
C2_SurfaceForAnyBandCount ==
    (pc = "done" /\ band_count >= MinBands /\ AllFeaturesFinite /\ fault = "none")
        => SurfaceComplete(result.probability_predictions)

\* Window w holds a NaN or infinite sample in a band other than the first.
WindowInvalid(w) ==
    \E b \in FeatureBands : \E p \in Pixels :
        InWindow(p, w) /\ ~IsFinite(Raster(b, p[1], p[2]))

ReadFailedAt(i) == fault = "read_second" /\ i = 2

NothingReturned ==
    /\ ~result.rgb_image.some
    /\ ~result.probability_predictions.some
    /\ ~result.meta.some

\* C3, as the claim states it: whenever some window of an accepted raster
\* (band count >= 11) holds a NaN or infinite feature value, the run ends
\* with the invalid-input outcome and returns nothing.
C3_InvalidAnywhereGivesInvalidInput ==
    (pc = "done" /\ band_count >= MinBands
        /\ \E o \in TilingOrigins : WindowInvalid(WindowAt(o[2], o[1])))
        => (outcome = "invalid_input" /\ NothingReturned)

\* C3, amended: a window that the run has read and whose features hold a
\* NaN or infinite value is the last window the run touches: the run is
\* over with the invalid-input outcome, nothing is returned, every earlier
\* window was scored and no later one is read; and the invalid-input outcome
\* arises in no other way.
C3_AbortAtInvalidWindow ==
    /\ \A i \in 1 .. Len(windows) :
          (WindowInvalid(windows[i]) /\ ~ReadFailedAt(i))
              => /\ i = Len(windows)
                 /\ pc = "done" /\ outcome = "invalid_input"
                 /\ NothingReturned
                 /\ chunk_count = i - 1
    /\ outcome = "invalid_input"
          => /\ Len(windows) >= 1
             /\ WindowInvalid(windows[Len(windows)])
             /\ ~ReadFailedAt(Len(windows))

\* An abort on invalid input after earlier windows were scored and written.
C3_Witness ==
    /\ outcome = "invalid_input" /\ chunk_count >= 1
    /\ \E p \in Pixels : probability_predictions.val[p] > 0
    /\ HasWindow

\* C4: a raster with fewer than 11 bands ends with the band-count outcome
\* before the composite is built and before any window is read, scored or
\* reported as progress, and no surface is produced.
C4_TooFewBandsAbortsFirst ==
    band_count < MinBands
        => /\ pc \in {"start", "done"}
           /\ ~rgb_image.some /\ ~probability_predictions.some
           /\ windows = <<>> /\ chunk_count = 0 /\ progress = <<>>
           /\ pc = "done" => (outcome = "band_count" /\ NothingReturned)

C4_Witness == pc = "done" /\ band_count < MinBands /\ outcome = "band_count"

AbortOutcomes == {"band_count", "rgb_error", "invalid_input", "exception"}

NoWindowTwice ==
    \A i, j \in 1 .. Len(windows) : windows[i] = windows[j] => i = j

AllOrNothing ==
    /\ pc = "done" <=> outcome \in {"success"} \cup AbortOutcomes
    /\ pc # "done" => NothingReturned
    /\ outcome = "success"
          => /\ result.rgb_image.some /\ result.meta.some
             /\ SurfaceComplete(result.probability_predictions)
             /\ ~HasWindow
             /\ chunk_count = Len(windows)
             /\ NoWindowTwice
             /\ \A p \in Pixels : Holders(p) = 1
    /\ outcome \in AbortOutcomes => NothingReturned
    /\ result.probability_predictions.some => outcome = "success"

\* C5: every run ends, in exactly one of two ways: success, only after every
\* window was processed exactly once, returning composite, surface and
\* metadata together; or abort, returning none of the three.  No surface is
\* returned in which some window was not processed.
C5_TerminatesAllOrNothing == <>(pc = "done") /\ []AllOrNothing

\* A successful run over several windows.
C5_Witness == pc = "done" /\ outcome = "success" /\ Len(windows) >= 2

StatsShown == pc = "shown"

\* m without its high zero bits
RECURSIVE StripHigh(_)
StripHigh(m) ==
    IF m = <<>> \/ m[Len(m)] = 1 THEN m ELSE StripHigh(SubSeq(m, 1, Len(m) - 1))

\* a <= b on digit sequences
BigLeq(a, b) ==
    LET n == IF Len(a) > Len(b) THEN Len(a) ELSE Len(b)
        bit(m, i) == IF i <= Len(m) THEN m[i] ELSE 0
    IN \/ \A i \in 1 .. n : bit(a, i) = bit(b, i)
       \/ \E i \in 1 .. n :
             /\ bit(a, i) = 0 /\ bit(b, i) = 1
             /\ \A j \in i + 1 .. n : bit(a, j) = bit(b, j)

\* The finest exponent used when the percentages are compared with 100.
FineExp == Min(Min(high_risk_percentage.e, low_risk_percentage.e), 0 - 46)

\* f as a multiple of 2^FineExp
Scaled(f) == StripHigh(ShiftLeft(f.m, f.e - FineExp))

\* The exact sum of the two float64 percentages, 100, and 2^-45.
PercentageSum == BigAdd(Scaled(high_risk_percentage), Scaled(low_risk_percentage))
Hundred == Scaled([m |-> <<0, 0, 1, 0, 0, 1, 1>>, e |-> 0])
Rounding == Scaled([m |-> <<1>>, e |-> 0 - 45])

CountsConsistent ==
    /\ \A p \in Pixels :
          /\ binary_predictions[p] \in {0, 1}
          /\ binary_predictions[p] = 1
                <=> probability_predictions.val[p] >= threshold
    /\ high_risk_count =
          Cardinality({p \in Pixels : probability_predictions.val[p] >= threshold})
    /\ low_risk_count =
          Cardinality({p \in Pixels : probability_predictions.val[p] < threshold})
    /\ high_risk_count + low_risk_count = height * width
    /\ total_pixels = height * width

\* C6, as the claim states it: a pixel is high-risk exactly when p >= t, the
\* two counts add up to height * width, and the two percentages add up to
\* 100.
C6_PercentagesSumTo100 ==
    StatsShown => (CountsConsistent /\ StripHigh(PercentageSum) = Hundred)

\* C6, amended: a pixel is high-risk exactly when p >= t, the two counts add
\* up to height * width exactly, and the two float64 percentages add up to
\* 100 up to rounding: their sum differs from 100 by at most 2^-45.
C6_StatisticsConsistent ==
    StatsShown
        => /\ CountsConsistent
           /\ BigLeq(PercentageSum, BigAdd(Hundred, Rounding))
           /\ BigLeq(Hundred, BigAdd(PercentageSum, Rounding))

\* Both classes present, one pixel exactly on the threshold, and a pixel
\* count that is no power of two.
C6_Witness ==
    /\ StatsShown /\ high_risk_count > 0 /\ low_risk_count > 0
    /\ \E p \in Pixels : probability_predictions.val[p] = threshold
    /\ total_pixels = 3

\* The samples of bands 7, 4 and 3, read straight from the raster.
DisplaySample(p, ch) == Raster(RgbBands[ch], p[1], p[2])

DisplayFinite ==
    \A p \in Pixels : \A ch \in 1 .. 3 : IsFinite(DisplaySample(p, ch))

DisplayValues == {DisplaySample(p, ch).v : p \in Pixels, ch \in 1 .. 3}

\* The least and the greatest value over all three bands.
GlobalMin == CHOOSE m \in DisplayValues : \A v \in DisplayValues : m <= v
GlobalMax == CHOOSE m \in DisplayValues : \A v \in DisplayValues : v <= m

InUnit(f) == ~f.nan /\ f.den > 0 /\ 0 <= f.num /\ f.num <= f.den

C8_FailedLoadDisablesInference ==
    [][page_runs' = page_runs + 1
          => /\ loaded' = "none"
                   => /\ ~uploader_shown'
                      /\ uploaded_file' = "None"
                      /\ predict_calls' = predict_calls
             /\ (loaded = "none" /\ artifact # "valid") => loaded' = "none"
      ]_vars

\* A session that ran inference, then lost the model and was disabled.
C8_Witness == loaded = "none" /\ page_runs >= 2 /\ predict_calls >= 1

\* C9: the total computed up front is the number of windows of the tiling;
\* the bar starts at 0 and the report after the k-th window is
\* k / total_chunks, so the reports strictly increase, never exceed 1, and
\* the last one is 1 exactly when no window is left; a finished loop has
\* enumerated and processed total_chunks windows.
C9_ProgressCountsWindows ==
    rgb_image.some
        => /\ total_chunks = Cardinality(TilingOrigins)
           /\ Len(progress) = chunk_count + 1
           /\ progress[1] = ProgressStart
           /\ \A k \in 1 .. chunk_count :
                 /\ progress[k + 1] = <<k, total_chunks>>
                 /\ total_chunks > 0 /\ k <= total_chunks
                 /\ progress[k][1] * progress[k + 1][2]
                       < progress[k + 1][1] * progress[k][2]
           /\ chunk_count >= 1
                 => (progress[Len(progress)][1] = progress[Len(progress)][2]
                        <=> ~HasWindow)
           /\ EnumerationComplete
                 => Len(windows) = total_chunks /\ chunk_count = total_chunks

\* A finished loop of several windows with a clipped last one.
C9_Witness ==
    /\ rgb_image.some /\ EnumerationComplete /\ chunk_count >= 3
    /\ windows[Len(windows)].width < chunk_size

\* The probability of pixel p, straight from the raster.
PixelProbability(p) ==
    Logistic(decision_function(scaler_transform(
        [j \in 1 .. band_count - 1 |-> Raster(j + 1, p[1], p[2])])))

WholeRaster == [col_off |-> 0, row_off |-> 0, width |-> width, height |-> height]

\* C10: on success the surface entry at (row, col) is the logistic of the
\* decision score of the feature vector of raster pixel (row, col), for
\* every chunk size, and the surface equals the one obtained by scoring the
\* whole raster as a single window.
C10_SurfaceIndependentOfChunking ==
    outcome = "success" /\ pc = "done"
        => /\ \A p \in Pixels :
                 result.probability_predictions.val[p] = PixelProbability(p)
           /\ LET whole == Reshape2D(
                     Probabilities(Features(DropFirstBand(ReadWindow(WholeRaster)),
                                            WholeRaster)),
                     height, width)
              IN \A p \in Pixels :
                    result.probability_predictions.val[p] = whole[p[1]][p[2]]

\* A success over several windows, clipped at both edges, on a raster whose
\* pixels score differently.
C10_Witness ==
    /\ outcome = "success" /\ pc = "done" /\ ~flat
    /\ Len(windows) >= 4
    /\ \E i \in 1 .. Len(windows) :
          windows[i].width < chunk_size /\ windows[i].height < chunk_size
    /\ \E p, q \in Pixels :
          result.probability_predictions.val[p] # result.probability_predictions.val[q]
====
